---- MODULE Spec2Model ----
(***************************************************************************)
(* WorldQuantV2: the job pipeline of main.py (worker threads sharing an    *)
(* expression generator and a result file) and the remote service client   *)
(* of api.py (login, get_datafields, get_alpha_result, multi_simulate,     *)
(* get_*_corr).                                                            *)
(*                                                                         *)
(* Python values: None is the empty sequence and a present value v is      *)
(* <<v>>; a JSON object is a function on its keys, so len(obj) is the      *)
(* cardinality of its domain; a dict is the sequence of its <<key, value>> *)
(* pairs in insertion order.                                               *)
(***************************************************************************)
EXTENDS Integers, Sequences, FiniteSets, TLC

\* ---------------------------------------------------------------- bounds
\* max_concurrent of main (8 in the source): the worker threads modelled
NumWorkers == 2
\* K: the number of lines of the expression file
NumAlphas == 3
\* batch_size of continuous_multi_simulate (10 in the source)
batch_size == 2
\* polls of one submission that may end in KeyError (the sleep branch)
MaxPolls == 1

\* largest retry budget a single client call is tried with
MaxBudget == 4
\* largest total count the data-field server reports
MaxCount == 5

\* polls of one submission that may find the terminal field missing
MaxPending == 2
\* most expressions written to the expression file in one run
MaxExprs == 2
\* most characters of one expression
MaxExprLen == 2
\* most calls of export_result_dict_to_csv made in a row on one file
MaxExports == 2
\* most tokens (characters and placeholders) of an expression template
MaxTemplateLen == 2
\* largest `amount` generate_alphas is called with
MaxAmount == 2

\* ---------------------------------------------------- program constants
\* maxRetries default of continuous_multi_simulate, passed to multi_simulate
SimulateMaxRetries == 3
\* maxRetries=3 passed to get_alpha_result by the worker
ResultMaxRetries == 3

\* maxRetries default of login, which main does not override
LoginMaxRetries == 3
\* maxRetries default of get_self_corr, get_prod_corr, get_power_pool_corr
CorrMaxRetries == 20
\* the largest page size get_datafields accepts
MaxLimit == 50

Workers == 1..NumWorkers
NoOwner == 0

None == <<>>
Some(v) == <<v>>

\* The expression file: line i holds expression i (all lines distinct).
Source == [i \in 1..NumAlphas |-> i]

VARIABLES
    pc,                 \* worker -> position in continuous_multi_simulate
    alphas,             \* worker -> the batch drawn (local `alphas`)
    idx,                \* worker -> position of `for alphaID in alphaIDs`
    alphaIDs,           \* worker -> local `alphaIDs` (None or <<list>>)
    result_dict,        \* worker -> local `result_dict`
    alpha_gen,          \* lines the shared generator has yielded so far
    alpha_gen_lock,     \* owner of alpha_gen_lock, NoOwner when free
    result_csv_lock,    \* owner of result_csv_lock, NoOwner when free
    result_file_exists, \* os.path.exists(result_csv_filename)
    result_file,        \* the lines of the result file
    drawLog,            \* history: <<worker, expression>> per next() that yielded
    written,            \* history: worker -> rows appended for the current batch
    absent,             \* history: worker -> None metrics in the current batch
    cl_op,              \* the client operation called on its own ("none": the pipeline runs)
    gar,                \* frame of the get_alpha_result call
    ms,                 \* frame of the multi_simulate call
    corr,               \* frame of the get_*_corr call
    lg,                 \* frame of the login call
    df,                 \* frame of the get_datafields call
    fio,                \* the expression file: its writer and its lazy reader
    sim,                \* frame of the regular_simulate or super_simulate call
    mn,                 \* frame of main
    ga                  \* frame of the generate_alphas call

pipeline_vars == <<pc, alphas, idx, alphaIDs, result_dict, alpha_gen, alpha_gen_lock,
                   result_csv_lock, result_file_exists, result_file, drawLog,
                   written, absent>>
client_vars == <<cl_op, gar, ms, corr, lg, df, fio, sim, mn, ga>>
vars == <<pipeline_vars, client_vars>>

\* ------------------------------------------------------------ the server
\* The alpha ID the server gives the simulation of an expression.
ServerAlphaID(alpha) == alpha

\* What one poll round of a batch of n children can meet.
\*   conn_progress   the GET of the progress URL raises ConnectionError
\*   pending         the progress body has no "children"
\*   child_pending j children listed, child j's body has no "alpha" yet
\*   child_conn j    the GET of child j raises ConnectionError
\*   resolved        every child carries its alpha ID
PollResponses(n) ==
    {[kind |-> k, j |-> 0] : k \in {"conn_progress", "pending", "resolved"}}
    \cup {[kind |-> k, j |-> j] : k \in {"child_pending", "child_conn"}, j \in 1..n}

\* The metric `key` of alpha `id` as the server reports it.
Metric(key, id) == <<key, id>>

EmptyBody == <<>>
AlphaBody(id) ==
    [is |-> [pnl |-> Metric("pnl", id), longCount |-> Metric("longCount", id),
             shortCount |-> Metric("shortCount", id), turnover |-> Metric("turnover", id),
             returns |-> Metric("returns", id), drawdown |-> Metric("drawdown", id),
             margin |-> Metric("margin", id)],
     sharpe |-> Metric("sharpe", id),
     fitness |-> Metric("fitness", id),
     regular |-> [code |-> Metric("alpha", id)]]

len(obj) == Cardinality(DOMAIN obj)

\* ------------------------------------------------------ get_alpha_result
\* a frame: the arguments, the value returned, and as history the budget the
\* call started with (r0), the GETs issued and the empty bodies received
GarIdle == [pc |-> "idle", alphaID |-> 0, maxRetries |-> 0, ret |-> None,
            r0 |-> 0, gets |-> 0, empties |-> 0]
GarCall(alphaID, maxRetries) ==
    [pc |-> "entry", alphaID |-> alphaID, maxRetries |-> maxRetries, ret |-> None,
     r0 |-> maxRetries, gets |-> 0, empties |-> 0]

\* return_dict as built from a non-empty body, keys in insertion order
ReturnDict(is_result) ==
    << <<"pnl", is_result.is.pnl>>, <<"longCount", is_result.is.longCount>>,
       <<"shortCount", is_result.is.shortCount>>, <<"turnover", is_result.is.turnover>>,
       <<"returns", is_result.is.returns>>, <<"drawdown", is_result.is.drawdown>>,
       <<"margin", is_result.is.margin>>, <<"sharpe", is_result.sharpe>>,
       <<"fitness", is_result.fitness>>, <<"alpha", is_result.regular.code>> >>

\* faulty variant: an empty body costs two units of the budget
GarRetryBudget_Two(maxRetries) == maxRetries - 2
\* line 126: the budget left after an empty body
GarRetryBudget(maxRetries) == maxRetries - 1

\* One pass through the body of get_alpha_result; the recursive call is in
\* tail position, so it is the same frame entered again with the new budget.
GetAlphaResultStep(f, is_result) ==
    IF f.maxRetries <= 0
    THEN [f EXCEPT !.pc = "return", !.ret = None]
    ELSE IF len(is_result) = 0
         THEN [f EXCEPT !.gets = @ + 1, !.empties = @ + 1,
                        !.maxRetries = GarRetryBudget(@)]
         ELSE [f EXCEPT !.gets = @ + 1, !.pc = "return",
                        !.ret = Some(ReturnDict(is_result))]

\* -------------------------------------------------------- multi_simulate
\* The settings of a job: a function from the names of the parameters to
\* their values. The parameters of regular_simulate and of multi_simulate
\* after s and alpha(s), in the order of the signature (lines 145, 189):
RegularParams ==
    <<"region", "universe", "delay", "decay", "neutralization", "truncation",
      "pasteurization", "testPeriod", "unitHandling", "nanHandling", "maxTrade">>
\* the names passed at these positions by the recursive calls of lines 184, 236
RegularRetryArgs ==
    <<"region", "universe", "delay", "decay", "neutralization", "truncation",
      "pasteurization", "testPeriod", "unitHandling", "nanHandling", "maxTrade">>
MultiRetryArgs ==
    <<"region", "universe", "delay", "decay", "neutralization", "truncation",
      "pasteurization", "testPeriod", "unitHandling", "nanHandling", "maxTrade">>
\* the parameters of super_simulate after s, combo and selection (line 241)
SuperParams ==
    <<"delay", "decay", "neutralization", "truncation", "selectionLimit", "region",
      "universe", "maxTrade", "nanHandling", "pasteurization", "selectionHandling",
      "testPeriod", "unitHandling", "componentActivation">>
\* the names passed at these positions by the recursive call of line 284
SuperRetryArgs ==
    <<"delay", "decay", "neutralization", "truncation", "selectionLimit", "region",
      "universe", "maxTrade", "nanHandling", "pasteurization", "selectionHandling",
      "testPeriod", "unitHandling", "nanHandling">>

Names(params) == {params[i] : i \in DOMAIN params}

\* a positional call: parameter i gets the value of the i-th argument
Bind(params, args, settings) ==
    [p \in Names(params) |->
        settings[args[CHOOSE i \in DOMAIN params : params[i] = p]]]

\* what main passes to continuous_multi_simulate (main.py line 115), with the
\* defaults of lines 75 and 87 for the rest
MainSettings ==
    [region |-> "USA", universe |-> "TOP3000", delay |-> "1", decay |-> "0",
     neutralization |-> "CROWDING", truncation |-> "0.04", pasteurization |-> "ON",
     testPeriod |-> "P0Y0M", unitHandling |-> "VERIFY", nanHandling |-> "ON",
     maxTrade |-> "OFF"]
\* settings in which every parameter has a value of its own
Tagged(params) == [p \in Names(params) |-> p]
\* super_simulate called with its defaults (line 241)
SuperDefaults ==
    [Tagged(SuperParams) EXCEPT !.maxTrade = "OFF", !.nanHandling = "ON",
                                !.pasteurization = "ON", !.selectionHandling = "POSITIVE",
                                !.testPeriod = "P0Y0M0D", !.unitHandling = "VERIFY",
                                !.componentActivation = "IS"]

\* a frame: the arguments and locals, and as history the budget the call
\* started with (r0), the POSTs made, the polls of the current submission
\* that ended in KeyError (pendings: the parent had no "children"; polls: a
\* child had no "alpha"), and the connection failures met
\* (jobs: the settings and the budget of each POST)
MsIdle == [pc |-> "idle", alphas |-> <<>>, maxRetries |-> 0, alphaIDs |-> <<>>,
           ret |-> None, r0 |-> 0, posts |-> 0, polls |-> 0, pendings |-> 0,
           connFailures |-> 0, settings |-> <<>>, jobs |-> <<>>]
MsCall(as, maxRetries) ==
    [pc |-> "entry", alphas |-> as, maxRetries |-> maxRetries, alphaIDs |-> <<>>,
     ret |-> None, r0 |-> maxRetries, posts |-> 0, polls |-> 0, pendings |-> 0,
     connFailures |-> 0, settings |-> MainSettings, jobs |-> <<>>]

\* the alpha IDs of children 1..k of the batch, in the server's child order
ChildIDs(as, k) == [i \in 1..k |-> ServerAlphaID(as[i])]

\* the job specification a POST of frame f submits
Job(f) == [settings |-> f.settings, maxRetries |-> f.maxRetries]

\* Lines 209-220: the budget check, the POST of the batch, alphaIDs = [].
MultiSimulateEnter(f) ==
    IF f.maxRetries <= 0
    THEN [f EXCEPT !.pc = "return", !.ret = None]
    ELSE [f EXCEPT !.pc = "poll", !.posts = @ + 1, !.alphaIDs = <<>>, !.polls = 0,
                   !.pendings = 0, !.jobs = Append(@, Job(f))]

\* faulty variant: a response without the terminal field costs one retry
OnPending_CostsBudget(f) == [f EXCEPT !.pendings = @ + 1, !.maxRetries = @ - 1]
\* except KeyError (lines 179-180, 231-232, 279-280): sleep, then poll again
OnPending(f) == [f EXCEPT !.pendings = @ + 1]

\* alphaIDs after a poll whose child j had no "alpha": children 1..j-1 were appended
AfterChildPending(f, j) == f.alphaIDs \o ChildIDs(f.alphas, j - 1)

\* what a ConnectionError of the progress GET (line 223, before the try) does
OnProgressConnectionError(f) == [f EXCEPT !.pc = "raise", !.connFailures = @ + 1]

\* Lines 222-238: one round of the polling loop.
MultiSimulatePoll(f, resp) ==
    CASE resp.kind = "conn_progress" -> OnProgressConnectionError(f)
      [] resp.kind = "pending" -> OnPending(f)
      [] resp.kind = "child_pending" ->
            [f EXCEPT !.polls = @ + 1, !.alphaIDs = AfterChildPending(f, resp.j)]
      [] resp.kind = "child_conn" ->
            [f EXCEPT !.pc = "entry", !.maxRetries = @ - 1, !.connFailures = @ + 1,
                      !.settings = Bind(RegularParams, MultiRetryArgs, @)]
      [] resp.kind = "resolved" ->
            [f EXCEPT !.pc = "return",
                      !.alphaIDs = @ \o ChildIDs(f.alphas, Len(f.alphas)),
                      !.ret = Some(f.alphaIDs \o ChildIDs(f.alphas, Len(f.alphas)))]

\* the responses a poll of frame f may meet within the bound on polls
PollChoices(f) ==
    {r \in PollResponses(Len(f.alphas)) :
        /\ r.kind = "pending" => f.pendings < MaxPending
        /\ r.kind = "child_pending" => f.polls < MaxPolls}

\* ------------------------------------- regular_simulate and super_simulate
\* The two functions differ in the body they POST; the budget check, the
\* POST and the polling loop are the same code (lines 165-186 and 264-286).
\* The progress GET (lines 175, 275) is outside the try, and inside the try
\* only the body already received is read.
\* Reading the body raises ConnectionError only on a session that streams
\* its responses (s.stream = True): then the body is read by .json().
SimIdle == [pc |-> "idle", kind |-> "none", alpha |-> 0, maxRetries |-> 0,
            ret |-> None, r0 |-> 0, posts |-> 0, pendings |-> 0, connFailures |-> 0,
            settings |-> <<>>, jobs |-> <<>>]
SimCall(kind, alpha, maxRetries) ==
    [pc |-> "entry", kind |-> kind, alpha |-> alpha, maxRetries |-> maxRetries,
     ret |-> None, r0 |-> maxRetries, posts |-> 0, pendings |-> 0, connFailures |-> 0,
     settings |-> IF kind = "SUPER" THEN SuperDefaults ELSE MainSettings,
     jobs |-> <<>>]

SimResponses == {"conn_progress", "conn_body", "pending", "resolved"}

\* lines 181-184 and 281-284: maxRetries -= 1 and the recursive call, which
\* is in tail position: the same frame entered again with the arguments bound
OnBodyConnectionError(f) ==
    [f EXCEPT !.pc = "entry", !.maxRetries = @ - 1, !.connFailures = @ + 1,
              !.settings = IF f.kind = "SUPER"
                           THEN Bind(SuperParams, SuperRetryArgs, @)
                           ELSE Bind(RegularParams, RegularRetryArgs, @)]

\* Lines 165-172 and 264-272: the budget check and the POST.
SingleSimulateEnter(f) ==
    IF f.maxRetries <= 0
    THEN [f EXCEPT !.pc = "return", !.ret = None]
    ELSE [f EXCEPT !.pc = "poll", !.posts = @ + 1, !.pendings = 0,
                   !.jobs = Append(@, Job(f))]

\* Lines 174-186 and 274-286: one round of the polling loop.
SingleSimulatePoll(f, kind) ==
    CASE kind = "conn_progress" -> OnProgressConnectionError(f)
      [] kind = "conn_body" -> OnBodyConnectionError(f)
      [] kind = "pending" -> OnPending(f)
      [] kind = "resolved" ->
            [f EXCEPT !.pc = "return", !.ret = Some(ServerAlphaID(f.alpha))]

SingleSimulateSucc(f) ==
    CASE f.pc = "entry" -> {SingleSimulateEnter(f)}
      [] f.pc = "poll" ->
            {SingleSimulatePoll(f, k) :
                k \in {k \in SimResponses : k = "pending" => f.pendings < MaxPending}}
      [] OTHER -> {}

\* ------------------------------------------------------------- the locks
\* faulty variants: the with statement does not wait for the lock
AlphaGenLockFree_NoWait == TRUE
ResultCsvLockFree_NoWait == TRUE

AlphaGenLockFree == alpha_gen_lock = NoOwner
ResultCsvLockFree == result_csv_lock = NoOwner

\* faulty variant: the lock is still held after the with block
Released_Kept(lock, w) == lock
\* the end of a `with lock:` block (lines 79-85, 97-98) run by worker w
Released(lock, w) == IF lock = w THEN NoOwner ELSE lock

\* faulty variant: a batch whose submission returned None ends the worker
AfterSimulate_Stop(ret) == IF ret = None THEN "stopped" ELSE "for"
\* line 88-91: `continue` when alphaIDs is None, else the for loop
AfterSimulate(ret) == IF ret = None THEN "loop" ELSE "for"

\* faulty variant: the alpha IDs are taken from the end of the list
NextAlphaID_Reversed(ids, i) == ids[Len(ids) + 1 - i]
\* line 91: for alphaID in alphaIDs (i: the position of the iteration)
NextAlphaID(ids, i) == ids[i]

\* line 95-96: `continue` after an absent result goes on with the next
\* alphaID (i: the position just handled, n: len(alphaIDs))
\* faulty variant: the loop is left instead (break)
AfterAbsent_Break(i, n) == n + 1
AfterAbsent(i, n) == i + 1

\* ------------------------------------------------------- the result file
HeaderLine(d) == [kind |-> "header", cells |-> [i \in 1..Len(d) |-> d[i][1]]]
\* faulty variant: the values are written last key first
RowLine_Reversed(d) == [kind |-> "row", cells |-> [i \in 1..Len(d) |-> d[Len(d) + 1 - i][2]]]
\* lines 68-71: the values, in the order of the record's keys
RowLine(d) == [kind |-> "row", cells |-> [i \in 1..Len(d) |-> d[i][2]]]

\* ------------------------------------------------------- get_*_corr
CorrBody == [max |-> 8, min |-> -1]

\* a frame; k is the server's behaviour: its first k bodies are empty
CorrIdle == [pc |-> "idle", kind |-> "self", maxRetries |-> 0, r0 |-> 0, k |-> 0,
             gets |-> 0, ret |-> None]
CorrCall(kind, maxRetries, k) ==
    [pc |-> "loop", kind |-> kind, maxRetries |-> maxRetries, r0 |-> maxRetries,
     k |-> k, gets |-> 0, ret |-> None]

\* the body the server sends for the next GET of the frame
ServerCorrBody(f) == IF f.gets + 1 <= f.k THEN EmptyBody ELSE CorrBody

\* faulty variant: the loop gives up one attempt early
CorrLoopGoesOn_OneEarly(maxRetries) == maxRetries > 1
\* line 312: while maxRetries > 0
CorrLoopGoesOn(maxRetries) == maxRetries > 0

\* Lines 312-320: one iteration of the loop, or the exit with None.
GetCorrStep(f, r) ==
    IF CorrLoopGoesOn(f.maxRetries)
    THEN IF len(r) = 0
         THEN [f EXCEPT !.gets = @ + 1, !.maxRetries = @ - 1]
         ELSE [f EXCEPT !.gets = @ + 1, !.pc = "return", !.ret = Some(<<r.max, r.min>>)]
    ELSE [f EXCEPT !.pc = "return", !.ret = None]

\* ---------------------------------------------------------------- login
\* the answers to the credential POST: 200, a 401 with the step-up
\* challenge ("persona") and the status of the re-check that follows the
\* human confirmation, a 401 with another challenge, another status
LoginResponses ==
    {[status |-> 200, www |-> "", status2 |-> 0],
     [status |-> 401, www |-> "Basic", status2 |-> 0],
     [status |-> 403, www |-> "", status2 |-> 0]}
    \cup {[status |-> 401, www |-> "persona", status2 |-> s2] : s2 \in {200, 204, 500}}

Rejected(resp) ==
    /\ resp.status # 200
    /\ ~(resp.status = 401 /\ resp.www = "persona")

\* a frame; history: the budget the call started with, the credential
\* POSTs, the human confirmations waited for, the answers received
LoginIdle == [pc |-> "idle", maxRetries |-> 0, r0 |-> 0, posts |-> 0, prompts |-> 0,
              log |-> <<>>, ret |-> None]
LoginCall(maxRetries) ==
    [pc |-> "entry", maxRetries |-> maxRetries, r0 |-> maxRetries, posts |-> 0,
     prompts |-> 0, log |-> <<>>, ret |-> None]

\* faulty variant: a failed confirmation ends the login
OnFailedConfirmation_GiveUp(f) == [f EXCEPT !.pc = "return", !.ret = None]
\* lines 37-40 and 45-48: maxRetries -= 1; return login(email, password, maxRetries)
OnFailedConfirmation(f) == [f EXCEPT !.maxRetries = @ - 1]

\* faulty variant: rejected credentials are retried like a failed confirmation
OnRejected_Retry(f) == [f EXCEPT !.maxRetries = @ - 1]
\* lines 50-52 and 57-59: wrong username or password
OnRejected(f) == [f EXCEPT !.pc = "return", !.ret = None]

\* Lines 22-59: one pass through the body; the recursive calls are in tail
\* position, so they are the same frame entered again with the new budget.
LoginStep(f, resp) ==
    IF f.maxRetries <= 0
    THEN [f EXCEPT !.pc = "return", !.ret = None]
    ELSE LET g == [f EXCEPT !.posts = @ + 1, !.log = Append(@, resp)]
         IN IF resp.status = 401
            THEN IF resp.www = "persona"
                 THEN LET h == [g EXCEPT !.prompts = @ + 1]
                      IN IF resp.status2 = 204
                         THEN OnFailedConfirmation(h)
                         ELSE IF resp.status2 = 200
                              THEN [h EXCEPT !.pc = "return", !.ret = Some("session")]
                              ELSE OnFailedConfirmation(h)
                 ELSE OnRejected(g)
            ELSE IF resp.status = 200
                 THEN [g EXCEPT !.pc = "return", !.ret = Some("session")]
                 ELSE OnRejected(g)

\* ------------------------------------------------------- get_datafields
Min(a, b) == IF a <= b THEN a ELSE b
Max(a, b) == IF a >= b THEN a ELSE b

\* The server holds `total` fields with IDs 1..total and serves them in
\* offset order, at most `limit` a page.
ServerPage(total, offset, limit) ==
    [k \in 1..Min(limit, Max(total - offset, 0)) |->
        [id |-> offset + k, description |-> <<"description", offset + k>>]]

\* d[k] = v on a dict
DictPut(d, k, v) ==
    IF \E i \in 1..Len(d) : d[i][1] = k
    THEN [i \in 1..Len(d) |-> IF d[i][1] = k THEN <<k, v>> ELSE d[i]]
    ELSE Append(d, <<k, v>>)

\* lines 104-105: for field in results: result_dict[field["id"]] = field["description"]
RECURSIVE PutFields(_, _)
PutFields(d, results) ==
    IF results = <<>> THEN d
    ELSE PutFields(DictPut(d, Head(results).id, Head(results).description), Tail(results))

\* faulty variant: the page after the last full one is not requested
PageCount_NoLast(count, limit) == count \div limit
\* line 101: range(count // limit + 1)
PageCount(count, limit) == count \div limit + 1

\* a frame; total is the server's count; history: the offsets requested
DfIdle == [pc |-> "idle", limit |-> 0, total |-> 0, count |-> 0, i |-> 0,
           result_dict |-> <<>>, offsets |-> <<>>, gets |-> 0, ret |-> None]
DfCall(limit, total) ==
    [pc |-> "entry", limit |-> limit, total |-> total, count |-> 0, i |-> 0,
     result_dict |-> <<>>, offsets |-> <<>>, gets |-> 0, ret |-> None]

\* faulty variant: a limit one above the maximum passes
LimitRejected_OneAbove(limit) == limit <= 0 \/ limit > MaxLimit + 1
\* Line 84: if limit <= 0 or limit > 50
LimitRejected(limit) == limit <= 0 \/ limit > MaxLimit

\* Lines 84-107: the check of limit and the first GET, then one page per step.
GetDatafieldsStep(f) ==
    IF f.pc = "entry"
    THEN IF LimitRejected(f.limit)
         THEN [f EXCEPT !.pc = "return", !.ret = None]
         ELSE [f EXCEPT !.pc = "pages", !.gets = @ + 1, !.count = f.total,
                        !.result_dict = <<>>, !.i = 0]
    ELSE IF f.i < PageCount(f.count, f.limit)
         THEN [f EXCEPT !.gets = @ + 1,
                        !.offsets = Append(@, f.limit * f.i),
                        !.result_dict =
                            PutFields(@, ServerPage(f.total, f.limit * f.i, f.limit)),
                        !.i = @ + 1]
         ELSE [f EXCEPT !.pc = "return", !.ret = Some(f.result_dict)]

\* ---------------------------------------------------- the expression file
\* An expression is a sequence of characters; the file is the sequence of
\* its lines, each ending in "\n".
Alphabet == {"a", "|", "\""}
Expressions == UNION {[1..n -> Alphabet] : n \in 0..MaxExprLen}
EOL == "EOL"

\* generate_alphas, lines 224-226: f.write(alpha + "\n") for each alpha
WriteLines(file, as) == file \o [i \in 1..Len(as) |-> as[i] \o <<"\n">>]

\* csv.reader(f, delimiter=delimiter) with the default dialect (quotechar '"',
\* doublequote, no escapechar, not strict): the parser's state, the field
\* being read and the fields of the record read so far.
CsvStart == [state |-> "START_RECORD", field |-> <<>>, fields |-> <<>>]
CsvSaveField(p) == [p EXCEPT !.fields = Append(@, p.field), !.field = <<>>]
CsvAddChar(p, c) == [p EXCEPT !.field = Append(@, c)]
CsvAfterEnd(c) == IF c = EOL THEN "START_RECORD" ELSE "EAT_CRNL"

CsvProcessChar(p, c, delimiter) ==
    CASE p.state = "START_RECORD" /\ c = EOL -> p
      [] p.state = "START_RECORD" /\ c = "\n" -> [p EXCEPT !.state = "EAT_CRNL"]
      [] p.state \in {"START_RECORD", "START_FIELD"} /\ c \notin {EOL, "\n"} ->
            IF c = "\"" THEN [p EXCEPT !.state = "IN_QUOTED_FIELD"]
            ELSE IF c = delimiter THEN [CsvSaveField(p) EXCEPT !.state = "START_FIELD"]
            ELSE [CsvAddChar(p, c) EXCEPT !.state = "IN_FIELD"]
      [] p.state = "START_FIELD" /\ c \in {EOL, "\n"} ->
            [CsvSaveField(p) EXCEPT !.state = CsvAfterEnd(c)]
      [] p.state = "IN_FIELD" ->
            IF c \in {EOL, "\n"} THEN [CsvSaveField(p) EXCEPT !.state = CsvAfterEnd(c)]
            ELSE IF c = delimiter THEN [CsvSaveField(p) EXCEPT !.state = "START_FIELD"]
            ELSE CsvAddChar(p, c)
      [] p.state = "IN_QUOTED_FIELD" ->
            IF c = EOL THEN p
            ELSE IF c = "\"" THEN [p EXCEPT !.state = "QUOTE_IN_QUOTED_FIELD"]
            ELSE CsvAddChar(p, c)
      [] p.state = "QUOTE_IN_QUOTED_FIELD" ->
            IF c = "\"" THEN [CsvAddChar(p, c) EXCEPT !.state = "IN_QUOTED_FIELD"]
            ELSE IF c = delimiter THEN [CsvSaveField(p) EXCEPT !.state = "START_FIELD"]
            ELSE IF c \in {EOL, "\n"}
                 THEN [CsvSaveField(p) EXCEPT !.state = CsvAfterEnd(c)]
                 ELSE [CsvAddChar(p, c) EXCEPT !.state = "IN_FIELD"]
      [] p.state = "EAT_CRNL" ->
            IF c = EOL THEN [p EXCEPT !.state = "START_RECORD"] ELSE p

\* the characters of one line, then the end-of-line mark
RECURSIVE CsvProcessLine(_, _, _)
CsvProcessLine(p, line, delimiter) ==
    IF line = <<>> THEN CsvProcessChar(p, EOL, delimiter)
    ELSE CsvProcessLine(CsvProcessChar(p, Head(line), delimiter), Tail(line), delimiter)

\* next(reader) with `pos` lines of the file consumed: the record (None at
\* the end of the file) and the lines consumed after it
RECURSIVE CsvNext(_, _, _, _)
CsvNext(p, file, pos, delimiter) ==
    IF pos >= Len(file)
    THEN IF p.field # <<>> \/ p.state = "IN_QUOTED_FIELD"
         THEN [row |-> Some(CsvSaveField(p).fields), pos |-> pos]
         ELSE [row |-> None, pos |-> pos]
    ELSE LET q == CsvProcessLine(p, file[pos + 1], delimiter)
         IN IF q.state = "START_RECORD"
            THEN [row |-> Some(q.fields), pos |-> pos + 1]
            ELSE CsvNext(q, file, pos + 1, delimiter)

\* ''.join(row)
RECURSIVE Join(_)
Join(row) == IF row = <<>> THEN <<>> ELSE Head(row) \o Join(Tail(row))

\* a frame: the expressions generate_alphas writes, the file, the lines the
\* reader has consumed, and as history the strings yield_csv_lines yielded
\* (the delimiter is a string, a sequence of characters: "|" by default),
\* whether a reader opened the file, the value import_csv_lines returned and
\* the calls of export_result_dict_to_csv made
FioIdle == [pc |-> "idle", alphas |-> <<>>, delimiter |-> <<"|">>, file |-> <<>>,
            pos |-> 0, yielded |-> <<>>, opened |-> FALSE, ret |-> None, calls |-> 0]
FioCall(as, delimiter) ==
    [pc |-> "write", alphas |-> as, delimiter |-> delimiter, file |-> <<>>,
     pos |-> 0, yielded |-> <<>>, opened |-> FALSE, ret |-> None, calls |-> 0]
\* a frame in which export_result_dict_to_csv is called on a new result file
FioExport == [FioIdle EXCEPT !.pc = "export"]

\* the delimiters a call is tried with: of length 0, 1 and 2
Delimiters == {<<>>, <<"|">>, <<"|", "|">>}

\* faulty variant: only the empty delimiter is turned down
DelimiterRejected_Empty(delimiter) == Len(delimiter) = 0
\* main.py lines 29, 44 and 58: if len(delimiter) != 1
DelimiterRejected(delimiter) == Len(delimiter) # 1

\* yield_csv_lines, lines 44-52: the first next() checks the delimiter and
\* opens the file; each next() gives one row of the reader, joined, or the
\* end of the generator
YieldCsvLine(f) ==
    IF DelimiterRejected(f.delimiter)
    THEN [f EXCEPT !.pc = "done"]
    ELSE LET r == CsvNext(CsvStart, f.file, f.pos, f.delimiter[1])
         IN IF r.row = None
            THEN [f EXCEPT !.pc = "done", !.pos = r.pos, !.opened = TRUE]
            ELSE [f EXCEPT !.pos = r.pos, !.opened = TRUE,
                           !.yielded = Append(@, Join(r.row[1]))]

\* import_csv_lines, lines 33-37: the joined rows of the file from line pos on
RECURSIVE CsvLines(_, _, _)
CsvLines(file, pos, delimiter) ==
    LET r == CsvNext(CsvStart, file, pos, delimiter)
    IN IF r.row = None THEN <<>>
       ELSE <<Join(r.row[1])>> \o CsvLines(file, r.pos, delimiter)

\* import_csv_lines, lines 28-38, as one call
ImportCsvLines(f) ==
    IF DelimiterRejected(f.delimiter)
    THEN [f EXCEPT !.pc = "imported", !.ret = None]
    ELSE [f EXCEPT !.pc = "imported", !.opened = TRUE, !.pos = Len(f.file),
                   !.ret = Some(CsvLines(f.file, 0, f.delimiter[1]))]

\* export_result_dict_to_csv, lines 58-72, as one call: whether the file
\* exists after it, and its lines
ExportResultDictToCsv(exists, file, d, delimiter) ==
    IF DelimiterRejected(delimiter)
    THEN [exists |-> exists, file |-> file]
    ELSE [exists |-> TRUE,
          file |-> Append(IF exists THEN file ELSE Append(file, HeaderLine(d)),
                          RowLine(d))]

\* ------------------------------------------------------ generate_alphas
\* A template is a sequence of tokens: a character, or a placeholder <x/> or
\* <y/>, which re.findall and str.replace treat as a whole. A value is the
\* sequence of the characters of its repr.
TemplateVars == {"x", "y"}
Placeholder(var) == IF var = "x" THEN "<x/>" ELSE "<y/>"
Templates == UNION {[1..n -> {"a", "\"", "<x/>", "<y/>"}] : n \in 0..MaxTemplateLen}

\* the definitions of the variables as select_operators, select_datafields and
\* select_number store them (lines 150-199): names and the floats of a list
OperatorsInfo == [type |-> "operators", values |-> {<<"a">>, <<"b">>}]
NumberInfo == [type |-> "number", values |-> {<<"5", ".", "0">>, <<"2", ".", "5">>}]
VariableInputs ==
    {[x |-> None, y |-> None], [x |-> Some(OperatorsInfo), y |-> None],
     [x |-> Some(OperatorsInfo), y |-> Some(NumberInfo)]}

\* a frame: the arguments, the local alphas, and as history the file as it
\* was when the call was made
GaIdle == [pc |-> "idle", template |-> <<>>, variables |-> <<>>, amount |-> 0,
           alphas |-> <<>>, file0 |-> <<>>]
GaCall(template, variables, amount, file) ==
    [pc |-> "build", template |-> template, variables |-> variables,
     amount |-> amount, alphas |-> <<>>, file0 |-> file]

\* line 204: set(re.findall(r"<(\w+)/>", template))
UniqueVars(template) ==
    {var \in TemplateVars : \E i \in DOMAIN template : template[i] = Placeholder(var)}

\* lines 214-216: a float that is an integer is turned into an int before str()
IsInteger(repl) ==
    Len(repl) >= 2 /\ repl[Len(repl) - 1] = "." /\ repl[Len(repl)] = "0"
Str(type, repl) ==
    IF type = "number" /\ IsInteger(repl) THEN SubSeq(repl, 1, Len(repl) - 2) ELSE repl

\* faulty variant: only the first occurrence is replaced
RECURSIVE Replace_First(_, _, _)
Replace_First(alpha, old, new) ==
    IF alpha = <<>> THEN <<>>
    ELSE IF Head(alpha) = old THEN new \o Tail(alpha)
         ELSE <<Head(alpha)>> \o Replace_First(Tail(alpha), old, new)
\* str.replace(old, new) where old is one token
RECURSIVE Replace(_, _, _)
Replace(alpha, old, new) ==
    IF alpha = <<>> THEN <<>>
    ELSE (IF Head(alpha) = old THEN new ELSE <<Head(alpha)>>)
             \o Replace(Tail(alpha), old, new)

\* .replace("\"", "")
StripQuotes(alpha) == SelectSeq(alpha, LAMBDA c : c # "\"")

\* lines 219-221: for var, repl in replacements.items(), in the order `order`
RECURSIVE Substitute(_, _, _)
Substitute(alpha, order, replacements) ==
    IF order = <<>> THEN alpha
    ELSE Substitute(StripQuotes(Replace(alpha, Placeholder(Head(order)),
                                        replacements[Head(order)])),
                    Tail(order), replacements)

\* the orders in which the variables of S can have been inserted
Orders(S) ==
    {o \in [1..Cardinality(S) -> S] : \A i, j \in DOMAIN o : i # j => o[i] # o[j]}

\* lines 207-222, one round of `for _ in range(amount)`: the alphas it can
\* append, one per choice of random.choice and per order of the set
BuiltAlphas(f) ==
    LET replaced == {var \in UniqueVars(f.template) :
                        f.variables[var][1].type \in {"operators", "datafields", "number"}}
    IN {Substitute(f.template, order,
                   [var \in replaced |-> Str(f.variables[var][1].type, c[var])]) :
            order \in Orders(replaced),
            c \in {c \in [replaced -> UNION {f.variables[var][1].values : var \in replaced}] :
                      \A var \in replaced : c[var] \in f.variables[var][1].values}}

\* lines 206-226: a round of the loop while it has rounds left, then the write
GenerateAlphasSucc(f, file) ==
    IF Len(f.alphas) < f.amount
    THEN IF \E var \in UniqueVars(f.template) : f.variables[var] = None
         THEN {[frame |-> [f EXCEPT !.pc = "raised"], file |-> file]}
         ELSE {[frame |-> [f EXCEPT !.alphas = Append(@, alpha)], file |-> file] :
                  alpha \in BuiltAlphas(f)}
    ELSE {[frame |-> [f EXCEPT !.pc = "return"], file |-> WriteLines(file, f.alphas)]}

\* ------------------------------------------------------ the frame of main
\* a frame: the local auth_session, the worker threads started, and as
\* history whether get_datafields and the expression generator were called
MainIdle == [pc |-> "idle", auth_session |-> None, fetched |-> FALSE,
             generated |-> FALSE, started |-> 0]

\* ------------------------------------------------- whole calls of the client
\* The frames one step of a multi_simulate call leads to.
MultiSimulateSucc(f) ==
    IF f.pc = "entry" THEN {MultiSimulateEnter(f)}
    ELSE IF f.pc = "poll" THEN {MultiSimulatePoll(f, resp) : resp \in PollChoices(f)}
    ELSE {}

\* S with every frame reachable from its frames F, the ones not stepped yet
RECURSIVE MultiSimulateGrow(_, _)
MultiSimulateGrow(S, F) ==
    LET N == UNION {MultiSimulateSucc(f) : f \in F} \ S
    IN IF N = {} THEN S ELSE MultiSimulateGrow(S \cup N, N)

\* every frame reachable from the frames of S
MultiSimulateReach(S) == MultiSimulateGrow(S, S)

\* The frames in which a multi_simulate call can end, over every behaviour
\* of the server.
MultiSimulateRuns(f) ==
    {g \in MultiSimulateReach({f}) : g.pc \in {"return", "raise"}}

\* the batches a draw can hand to multi_simulate: up to batch_size lines of
\* the source, in source order (the generator only moves forward)
Batches ==
    {as \in UNION {[1..n -> {Source[i] : i \in DOMAIN Source}] : n \in 0..batch_size} :
        \A i, j \in 1..Len(as) : i < j => as[i] < as[j]}

\* what the caller of multi_simulate sees for each batch: an exception, or the
\* value returned
MultiSimulateOutcomes ==
    UNION {{[alphas |-> as, raised |-> f.pc = "raise", ret |-> f.ret] :
               f \in MultiSimulateRuns(MsCall(as, SimulateMaxRetries))} : as \in Batches}

\* The frames in which a get_alpha_result call can end.
RECURSIVE GetAlphaResultRuns(_)
GetAlphaResultRuns(f) ==
    IF f.pc = "return" THEN {f}
    ELSE UNION {GetAlphaResultRuns(GetAlphaResultStep(f, body)) :
                    body \in {EmptyBody, AlphaBody(f.alphaID)}}

\* the values get_alpha_result can return
GetAlphaResultOutcomes(alphaID, maxRetries) ==
    {f.ret : f \in GetAlphaResultRuns(GarCall(alphaID, maxRetries))}

\* ---------------------------------------------------------------- Init
Init ==
    /\ pc = [w \in Workers |-> "loop"]
    /\ alphas = [w \in Workers |-> <<>>]
    /\ idx = [w \in Workers |-> 0]
    /\ alphaIDs = [w \in Workers |-> None]
    /\ result_dict = [w \in Workers |-> None]
    /\ alpha_gen = 0
    /\ alpha_gen_lock = NoOwner
    /\ result_csv_lock = NoOwner
    /\ result_file_exists = FALSE
    /\ result_file = <<>>
    /\ drawLog = <<>>
    /\ written = [w \in Workers |-> 0]
    /\ absent = [w \in Workers |-> 0]
    /\ cl_op = "none"
    /\ gar = GarIdle
    /\ ms = MsIdle
    /\ corr = CorrIdle
    /\ lg = LoginIdle
    /\ df = DfIdle
    /\ fio = FioIdle
    /\ sim = SimIdle
    /\ mn = MainIdle
    /\ ga = GaIdle

\* ---------------------------------------------- continuous_multi_simulate
\* line 79-80: with alpha_gen_lock: alphas = []
AcquireAlphaGenLock(w) ==
    /\ pc[w] = "loop"
    /\ AlphaGenLockFree
    /\ alpha_gen_lock' = w
    /\ alphas' = [alphas EXCEPT ![w] = <<>>]
    /\ pc' = [pc EXCEPT ![w] = "draw"]
    /\ UNCHANGED <<idx, alphaIDs, result_dict, alpha_gen, result_csv_lock,
                   result_file_exists, result_file, drawLog, written, absent>>
    /\ UNCHANGED client_vars

\* line 81-83: one next(alpha_gen) that yields a line
DrawNext(w) ==
    /\ pc[w] = "draw"
    /\ Len(alphas[w]) < batch_size
    /\ alpha_gen < Len(Source)
    /\ alphas' = [alphas EXCEPT ![w] = Append(@, Source[alpha_gen + 1])]
    /\ alpha_gen' = alpha_gen + 1
    /\ drawLog' = Append(drawLog, <<w, Source[alpha_gen + 1]>>)
    /\ UNCHANGED <<pc, idx, alphaIDs, result_dict, alpha_gen_lock, result_csv_lock,
                   result_file_exists, result_file, written, absent>>
    /\ UNCHANGED client_vars

\* line 81/84-85: the range is used up or next() raised StopIteration; the
\* with block ends and the lock is released (if this worker holds it)
DrawEnd(w) ==
    /\ pc[w] = "draw"
    /\ Len(alphas[w]) >= batch_size \/ alpha_gen >= Len(Source)
    /\ alpha_gen_lock' = Released(alpha_gen_lock, w)
    /\ pc' = [pc EXCEPT ![w] = "simulate"]
    /\ UNCHANGED <<alphas, idx, alphaIDs, result_dict, alpha_gen, result_csv_lock,
                   result_file_exists, result_file, drawLog, written, absent>>
    /\ UNCHANGED client_vars

\* line 87-89: alphaIDs = multi_simulate(s, alphas, ..., maxRetries); an
\* exception leaving the call ends the thread; None -> continue
Simulate(w) ==
    /\ pc[w] = "simulate"
    /\ \E out \in MultiSimulateOutcomes :
          /\ out.alphas = alphas[w]
          /\ IF out.raised
             THEN /\ pc' = [pc EXCEPT ![w] = "crashed"]
                  /\ UNCHANGED <<alphaIDs, idx>>
             ELSE /\ alphaIDs' = [alphaIDs EXCEPT ![w] = out.ret]
                  /\ idx' = [idx EXCEPT ![w] = IF out.ret = None THEN 0 ELSE 1]
                  /\ pc' = [pc EXCEPT ![w] = AfterSimulate(out.ret)]
    /\ written' = [written EXCEPT ![w] = 0]
    /\ absent' = [absent EXCEPT ![w] = 0]
    /\ UNCHANGED <<alphas, result_dict, alpha_gen, alpha_gen_lock, result_csv_lock,
                   result_file_exists, result_file, drawLog>>
    /\ UNCHANGED client_vars

\* line 91-96: the next alphaID; result_dict = {"*alphaID": alphaID} is
\* replaced by what get_alpha_result returns; None -> continue
ForNext(w) ==
    /\ pc[w] = "for"
    /\ idx[w] <= Len(alphaIDs[w][1])
    /\ \E r \in GetAlphaResultOutcomes(NextAlphaID(alphaIDs[w][1], idx[w]),
                                         ResultMaxRetries) :
          /\ result_dict' = [result_dict EXCEPT ![w] = r]
          /\ IF r = None
             THEN /\ idx' = [idx EXCEPT ![w] = AfterAbsent(@, Len(alphaIDs[w][1]))]
                  /\ absent' = [absent EXCEPT ![w] = @ + 1]
                  /\ pc' = pc
             ELSE /\ pc' = [pc EXCEPT ![w] = "export_lock"]
                  /\ UNCHANGED <<idx, absent>>
    /\ UNCHANGED <<alphas, alphaIDs, alpha_gen, alpha_gen_lock, result_csv_lock,
                   result_file_exists, result_file, drawLog, written>>
    /\ UNCHANGED client_vars

\* line 99: the for loop is over; back to the top of while True. The locals
\* of the finished iteration are dead (each is assigned again before it is
\* read), so they are cleared here, `alphas` included. (After a None of
\* line 87 `alphas` is left as it is: the abandoned batch stays in the state
\* until the next draw.)
ForEnd(w) ==
    /\ pc[w] = "for"
    /\ idx[w] > Len(alphaIDs[w][1])
    /\ pc' = [pc EXCEPT ![w] = "loop"]
    /\ idx' = [idx EXCEPT ![w] = 0]
    /\ alphas' = [alphas EXCEPT ![w] = <<>>]
    /\ alphaIDs' = [alphaIDs EXCEPT ![w] = None]
    /\ result_dict' = [result_dict EXCEPT ![w] = None]
    /\ written' = [written EXCEPT ![w] = 0]
    /\ absent' = [absent EXCEPT ![w] = 0]
    /\ UNCHANGED <<alpha_gen, alpha_gen_lock, result_csv_lock,
                   result_file_exists, result_file, drawLog>>
    /\ UNCHANGED client_vars

\* line 97: with result_csv_lock
AcquireResultCsvLock(w) ==
    /\ pc[w] = "export_lock"
    /\ ResultCsvLockFree
    /\ result_csv_lock' = w
    /\ pc' = [pc EXCEPT ![w] = "export_check"]
    /\ UNCHANGED <<alphas, idx, alphaIDs, result_dict, alpha_gen, alpha_gen_lock,
                   result_file_exists, result_file, drawLog, written, absent>>
    /\ UNCHANGED client_vars

\* ------------------------------------------------ export_result_dict_to_csv
\* line 58-62: the delimiter "|" has length 1; os.path.exists(filename)
ExportCheckExists(w) ==
    /\ pc[w] = "export_check"
    /\ pc' = [pc EXCEPT ![w] = IF result_file_exists THEN "export_row"
                                                     ELSE "export_header"]
    /\ UNCHANGED <<alphas, idx, alphaIDs, result_dict, alpha_gen, alpha_gen_lock,
                   result_csv_lock, result_file_exists, result_file, drawLog,
                   written, absent>>
    /\ UNCHANGED client_vars

\* line 63-66: the file is created and the keys are written as one line
ExportHeader(w) ==
    /\ pc[w] = "export_header"
    /\ result_file_exists' = TRUE
    /\ result_file' = Append(result_file, HeaderLine(result_dict[w][1]))
    /\ pc' = [pc EXCEPT ![w] = "export_row"]
    /\ UNCHANGED <<alphas, idx, alphaIDs, result_dict, alpha_gen, alpha_gen_lock,
                   result_csv_lock, drawLog, written, absent>>
    /\ UNCHANGED client_vars

\* line 68-72 and the end of the with block of line 97: the values are
\* appended as one line, the lock is released, the for loop goes on
ExportRow(w) ==
    /\ pc[w] = "export_row"
    /\ result_file_exists' = TRUE
    /\ result_file' = Append(result_file, RowLine(result_dict[w][1]))
    /\ result_csv_lock' = Released(result_csv_lock, w)
    /\ written' = [written EXCEPT ![w] = @ + 1]
    /\ idx' = [idx EXCEPT ![w] = @ + 1]
    /\ pc' = [pc EXCEPT ![w] = "for"]
    /\ UNCHANGED <<alphas, alphaIDs, result_dict, alpha_gen, alpha_gen_lock,
                   drawLog, absent>>
    /\ UNCHANGED client_vars

Next ==
    \E w \in Workers :
        \/ AcquireAlphaGenLock(w)
        \/ DrawNext(w)
        \/ DrawEnd(w)
        \/ Simulate(w)
        \/ ForNext(w)
        \/ ForEnd(w)
        \/ AcquireResultCsvLock(w)
        \/ ExportCheckExists(w)
        \/ ExportHeader(w)
        \/ ExportRow(w)

Spec == Init /\ [][Next]_vars

\* ------------------------------------------- the client operations alone
\* the retry budgets a call is tried with
\* ----------------------------- the pipeline against a server that resolves
\* What multi_simulate returns when no request meets a connection failure:
\* every poll either finds the job (or one of its children) unresolved, or
\* finds it resolved.
MultiSimulateResolved(as) ==
    {f.ret : f \in {g \in MultiSimulateRuns(MsCall(as, SimulateMaxRetries)) :
                        g.pc = "return" /\ g.connFailures = 0}}

\* the same, tabulated: the pairs of a batch and a value returned for it
ResolvedReturns ==
    UNION {{<<as, ret>> : ret \in MultiSimulateResolved(as)} : as \in Batches}

\* line 87-91 against such a server
SimulateResolved(w) ==
    /\ pc[w] = "simulate"
    /\ \E out \in ResolvedReturns :
          /\ out[1] = alphas[w]
          /\ alphaIDs' = [alphaIDs EXCEPT ![w] = out[2]]
          /\ idx' = [idx EXCEPT ![w] = IF out[2] = None THEN 0 ELSE 1]
          /\ pc' = [pc EXCEPT ![w] = AfterSimulate(out[2])]
    /\ written' = [written EXCEPT ![w] = 0]
    /\ absent' = [absent EXCEPT ![w] = 0]
    /\ UNCHANGED <<alphas, result_dict, alpha_gen, alpha_gen_lock, result_csv_lock,
                   result_file_exists, result_file, drawLog>>
    /\ UNCHANGED client_vars

\* line 94 against a server whose metrics body is never empty
FetchPresent(w) ==
    /\ ForNext(w)
    /\ result_dict'[w] # None

WorkerLive(w) ==
    \/ AcquireAlphaGenLock(w)
    \/ DrawNext(w)
    \/ DrawEnd(w)
    \/ SimulateResolved(w)
    \/ FetchPresent(w)
    \/ ForEnd(w)
    \/ AcquireResultCsvLock(w)
    \/ ExportCheckExists(w)
    \/ ExportHeader(w)
    \/ ExportRow(w)

NextLive == \E w \in Workers : WorkerLive(w)

\* every thread that can take a step is scheduled in the end
SpecLive == Init /\ [][NextLive]_vars /\ \A w \in Workers : WF_vars(WorkerLive(w))

Budgets == -1..MaxBudget
\* the batches multi_simulate is tried with
ClientBatches == {SubSeq(Source, 1, n) : n \in 0..Min(batch_size, Len(Source))}

InitClient ==
    /\ pc = [w \in Workers |-> "loop"]
    /\ alphas = [w \in Workers |-> <<>>]
    /\ idx = [w \in Workers |-> 0]
    /\ alphaIDs = [w \in Workers |-> None]
    /\ result_dict = [w \in Workers |-> None]
    /\ alpha_gen = 0
    /\ alpha_gen_lock = NoOwner
    /\ result_csv_lock = NoOwner
    /\ result_file_exists = FALSE
    /\ result_file = <<>>
    /\ drawLog = <<>>
    /\ written = [w \in Workers |-> 0]
    /\ absent = [w \in Workers |-> 0]
    /\ cl_op \in {"login", "get_datafields", "get_alpha_result", "multi_simulate",
                  "get_self_corr", "get_prod_corr", "get_power_pool_corr",
                  "regular_simulate", "super_simulate"}
    /\ gar \in IF cl_op = "get_alpha_result"
               THEN {GarCall(Source[1], r) : r \in Budgets} ELSE {GarIdle}
    /\ ms \in IF cl_op = "multi_simulate"
              THEN {[MsCall(as, r) EXCEPT !.settings = st] :
                        as \in ClientBatches, r \in Budgets,
                        st \in {MainSettings, Tagged(RegularParams)}}
              ELSE {MsIdle}
    /\ corr \in CASE cl_op = "get_self_corr" ->
                        {CorrCall("self", m, k) :
                            m \in Budgets \cup {CorrMaxRetries},
                            k \in (0..MaxBudget + 1) \cup {CorrMaxRetries - 1, CorrMaxRetries}}
                  [] cl_op = "get_prod_corr" ->
                        {CorrCall("prod", m, k) :
                            m \in Budgets \cup {CorrMaxRetries},
                            k \in (0..MaxBudget + 1) \cup {CorrMaxRetries - 1, CorrMaxRetries}}
                  [] cl_op = "get_power_pool_corr" ->
                        {CorrCall("power-pool", m, k) :
                            m \in Budgets \cup {CorrMaxRetries},
                            k \in (0..MaxBudget + 1) \cup {CorrMaxRetries - 1, CorrMaxRetries}}
                  [] OTHER -> {CorrIdle}
    /\ lg \in IF cl_op = "login" THEN {LoginCall(r) : r \in Budgets} ELSE {LoginIdle}
    /\ df \in IF cl_op = "get_datafields"
              THEN {DfCall(limit, total) : limit \in -1..MaxLimit + 1, total \in 0..MaxCount}
              ELSE {DfIdle}
    /\ fio = FioIdle
    /\ sim \in CASE cl_op = "regular_simulate" ->
                       {[SimCall("REGULAR", Source[1], r) EXCEPT !.settings = st] :
                            r \in Budgets, st \in {MainSettings, Tagged(RegularParams)}}
                 [] cl_op = "super_simulate" ->
                       {[SimCall("SUPER", Source[1], r) EXCEPT !.settings = st] :
                            r \in Budgets, st \in {SuperDefaults, Tagged(SuperParams)}}
                 [] OTHER -> {SimIdle}
    /\ mn = MainIdle
    /\ ga = GaIdle

login ==
    /\ cl_op = "login"
    /\ lg.pc = "entry"
    /\ \E resp \in LoginResponses : lg' = LoginStep(lg, resp)
    /\ UNCHANGED <<pipeline_vars, mn, ga, fio, sim, cl_op, gar, ms, corr, df>>

get_datafields ==
    /\ cl_op = "get_datafields"
    /\ df.pc \in {"entry", "pages"}
    /\ df' = GetDatafieldsStep(df)
    /\ UNCHANGED <<pipeline_vars, mn, ga, fio, sim, cl_op, gar, ms, corr, lg>>

get_alpha_result ==
    /\ cl_op = "get_alpha_result"
    /\ gar.pc = "entry"
    /\ \E body \in {EmptyBody, AlphaBody(gar.alphaID)} :
          gar' = GetAlphaResultStep(gar, body)
    /\ UNCHANGED <<pipeline_vars, mn, ga, fio, sim, cl_op, ms, corr, lg, df>>

multi_simulate ==
    /\ cl_op = "multi_simulate"
    /\ \E g \in MultiSimulateSucc(ms) : ms' = g
    /\ UNCHANGED <<pipeline_vars, mn, ga, fio, sim, cl_op, gar, corr, lg, df>>

get_self_corr ==
    /\ cl_op = "get_self_corr"
    /\ corr.pc = "loop"
    /\ corr' = GetCorrStep(corr, ServerCorrBody(corr))
    /\ UNCHANGED <<pipeline_vars, mn, ga, fio, sim, cl_op, gar, ms, lg, df>>

get_prod_corr ==
    /\ cl_op = "get_prod_corr"
    /\ corr.pc = "loop"
    /\ corr' = GetCorrStep(corr, ServerCorrBody(corr))
    /\ UNCHANGED <<pipeline_vars, mn, ga, fio, sim, cl_op, gar, ms, lg, df>>

get_power_pool_corr ==
    /\ cl_op = "get_power_pool_corr"
    /\ corr.pc = "loop"
    /\ corr' = GetCorrStep(corr, ServerCorrBody(corr))
    /\ UNCHANGED <<pipeline_vars, mn, ga, fio, sim, cl_op, gar, ms, lg, df>>

regular_simulate ==
    /\ cl_op = "regular_simulate"
    /\ \E g \in SingleSimulateSucc(sim) : sim' = g
    /\ UNCHANGED <<pipeline_vars, mn, ga, fio, cl_op, gar, ms, corr, lg, df>>

super_simulate ==
    /\ cl_op = "super_simulate"
    /\ \E g \in SingleSimulateSucc(sim) : sim' = g
    /\ UNCHANGED <<pipeline_vars, mn, ga, fio, cl_op, gar, ms, corr, lg, df>>

NextClient ==
    \/ login
    \/ get_datafields
    \/ get_alpha_result
    \/ multi_simulate
    \/ get_self_corr
    \/ get_prod_corr
    \/ get_power_pool_corr
    \/ regular_simulate
    \/ super_simulate

SpecClient == InitClient /\ [][NextClient]_vars

\* ------------------------------------------- the expression file alone
InitFiles ==
    /\ pc = [w \in Workers |-> "loop"]
    /\ alphas = [w \in Workers |-> <<>>]
    /\ idx = [w \in Workers |-> 0]
    /\ alphaIDs = [w \in Workers |-> None]
    /\ result_dict = [w \in Workers |-> None]
    /\ alpha_gen = 0
    /\ alpha_gen_lock = NoOwner
    /\ result_csv_lock = NoOwner
    /\ result_file_exists = FALSE
    /\ result_file = <<>>
    /\ drawLog = <<>>
    /\ written = [w \in Workers |-> 0]
    /\ absent = [w \in Workers |-> 0]
    /\ cl_op = "none"
    /\ gar = GarIdle
    /\ ms = MsIdle
    /\ corr = CorrIdle
    /\ lg = LoginIdle
    /\ df = DfIdle
    /\ sim = SimIdle
    /\ mn = MainIdle
    /\ \/ /\ ga = GaIdle
          /\ fio \in {FioCall(as, dl) :
                         as \in UNION {[1..n -> Expressions] : n \in 0..MaxExprs},
                         dl \in Delimiters}
                     \cup {FioExport}
       \/ /\ fio \in {[FioIdle EXCEPT !.file = file] : file \in {<<>>, <<<<"a", "\n">>>>}}
          /\ ga \in {GaCall(t, vs, amount, fio.file) :
                        t \in Templates, vs \in VariableInputs, amount \in 0..MaxAmount}

\* generate_alphas, lines 224-226: the lines are appended to the file
generate_alphas ==
    /\ fio.pc = "write"
    /\ fio' = [fio EXCEPT !.pc = "read", !.file = WriteLines(@, fio.alphas)]
    /\ UNCHANGED <<pipeline_vars, mn, ga, sim, cl_op, gar, ms, corr, lg, df>>

\* yield_csv_lines: the consumer asks for the next line
yield_csv_lines ==
    /\ fio.pc = "read"
    /\ fio' = YieldCsvLine(fio)
    /\ UNCHANGED <<pipeline_vars, mn, ga, sim, cl_op, gar, ms, corr, lg, df>>

\* import_csv_lines: the whole file is read in one call
import_csv_lines ==
    /\ fio.pc = "read"
    /\ ~fio.opened
    /\ fio.yielded = <<>>
    /\ fio' = ImportCsvLines(fio)
    /\ UNCHANGED <<pipeline_vars, mn, ga, sim, cl_op, gar, ms, corr, lg, df>>

\* export_result_dict_to_csv: one more record is exported to the result file
export_result_dict_to_csv ==
    /\ fio.pc = "export"
    /\ fio.calls < MaxExports
    /\ \E id \in 1..NumAlphas, dl \in Delimiters :
          LET r == ExportResultDictToCsv(result_file_exists, result_file,
                                         ReturnDict(AlphaBody(id)), dl)
          IN /\ result_file_exists' = r.exists
             /\ result_file' = r.file
             /\ fio' = [fio EXCEPT !.calls = @ + 1, !.delimiter = dl]
    /\ UNCHANGED <<pc, alphas, idx, alphaIDs, result_dict, alpha_gen, alpha_gen_lock,
                   result_csv_lock, drawLog, written, absent>>
    /\ UNCHANGED <<mn, ga, sim, cl_op, gar, ms, corr, lg, df>>

\* generate_alphas of generate_alphas_v2.py: the expressions are built from
\* the template and then appended to the file
generate_alphas_v2 ==
    /\ ga.pc = "build"
    /\ \E r \in GenerateAlphasSucc(ga, fio.file) :
          /\ ga' = r.frame
          /\ fio' = [fio EXCEPT !.file = r.file]
    /\ UNCHANGED <<pipeline_vars, mn, sim, cl_op, gar, ms, corr, lg, df>>

NextFiles ==
    \/ generate_alphas
    \/ yield_csv_lines
    \/ import_csv_lines
    \/ export_result_dict_to_csv
    \/ generate_alphas_v2

SpecFiles == InitFiles /\ [][NextFiles]_vars

\* --------------------------------------------------------------- main
InitMain ==
    /\ pc = [w \in Workers |-> "loop"]
    /\ alphas = [w \in Workers |-> <<>>]
    /\ idx = [w \in Workers |-> 0]
    /\ alphaIDs = [w \in Workers |-> None]
    /\ result_dict = [w \in Workers |-> None]
    /\ alpha_gen = 0
    /\ alpha_gen_lock = NoOwner
    /\ result_csv_lock = NoOwner
    /\ result_file_exists = FALSE
    /\ result_file = <<>>
    /\ drawLog = <<>>
    /\ written = [w \in Workers |-> 0]
    /\ absent = [w \in Workers |-> 0]
    /\ cl_op = "login"
    /\ gar = GarIdle
    /\ ms = MsIdle
    /\ corr = CorrIdle
    /\ lg = LoginCall(LoginMaxRetries)
    /\ df = DfIdle
    /\ sim = SimIdle
    /\ fio = FioIdle
    /\ mn = [MainIdle EXCEPT !.pc = "login"]
    /\ ga = GaIdle

\* main.py lines 105-106: auth_session = login(...); the message is printed
\* whatever login returned
MainLoginReturn ==
    /\ mn.pc = "login"
    /\ lg.pc = "return"
    /\ mn' = [mn EXCEPT !.pc = "fields", !.auth_session = lg.ret]
    /\ UNCHANGED <<pipeline_vars, ga, fio, sim, cl_op, gar, ms, corr, lg, df>>

\* main.py line 107: get_datafields(auth_session, ...) is called with the
\* default limit; api.py lines 84-97: the limit passes and s.get is evaluated,
\* which on None raises AttributeError, caught nowhere
MainGetDatafields ==
    /\ mn.pc = "fields"
    /\ cl_op = "login"
    /\ IF mn.auth_session = None
       THEN /\ mn' = [mn EXCEPT !.pc = "raised", !.fetched = TRUE]
            /\ UNCHANGED <<cl_op, df>>
       ELSE /\ mn' = [mn EXCEPT !.fetched = TRUE]
            /\ cl_op' = "get_datafields"
            /\ \E total \in 0..MaxCount : df' = DfCall(MaxLimit, total)
    /\ UNCHANGED <<pipeline_vars, ga, fio, sim, gar, ms, corr, lg>>

\* main.py lines 109-110: the expression file is generated and the lazy
\* reader is made
MainGenerate ==
    /\ mn.pc = "fields"
    /\ df.pc = "return"
    /\ mn' = [mn EXCEPT !.pc = "threads", !.generated = TRUE]
    /\ UNCHANGED <<pipeline_vars, ga, fio, sim, cl_op, gar, ms, corr, lg, df>>

\* main.py lines 114-119: one more worker thread is started
MainStart ==
    /\ mn.pc = "threads"
    /\ mn.started < NumWorkers
    /\ mn' = [mn EXCEPT !.started = @ + 1]
    /\ UNCHANGED <<pipeline_vars, ga, fio, sim, cl_op, gar, ms, corr, lg, df>>

\* main.py lines 120-121: every thread is started; main waits for them
MainJoin ==
    /\ mn.pc = "threads"
    /\ mn.started = NumWorkers
    /\ mn' = [mn EXCEPT !.pc = "join"]
    /\ UNCHANGED <<pipeline_vars, ga, fio, sim, cl_op, gar, ms, corr, lg, df>>

NextMain ==
    \/ login
    \/ MainLoginReturn
    \/ MainGetDatafields
    \/ get_datafields
    \/ MainGenerate
    \/ MainStart
    \/ MainJoin

SpecMain == InitMain /\ [][NextMain]_vars

\* ------------------------------------------------------ pipeline properties
DataRows == {i \in 1..Len(result_file) : result_file[i].kind = "row"}
\* the alpha ID a data row belongs to (the metrics are those of one alpha)
RowAlphaID(i) == result_file[i].cells[1][2]

\* C1: under every interleaving the i-th line the generator yields is line i
\* of the source, drawn once and by one worker, and each worker's batch is a
\* contiguous run of the source, in source order, drawn by that worker alone.
C1_ExactlyOnceDraw ==
    /\ Len(drawLog) = alpha_gen
    /\ \A i \in 1..Len(drawLog) : drawLog[i][2] = Source[i]
    /\ \A w \in Workers :
          \E k \in 0..Len(Source) :
             \A i \in 1..Len(alphas[w]) :
                /\ k + i <= Len(drawLog)
                /\ alphas[w][i] = Source[k + i]
                /\ drawLog[k + i][1] = w

\* the source is drained and two workers hold a non-empty batch each
C1_Witness ==
    /\ alpha_gen = Len(Source)
    /\ \E v, w \in Workers : v # w /\ Len(alphas[v]) > 0 /\ Len(alphas[w]) > 0

\* C2: a worker whose draw returned fewer than batch_size expressions does
\* not go back to the top of its loop: it comes back there only after a full batch.
C2_LoopEndsAfterShortDraw ==
    [][\A w \in Workers :
          (pc[w] # "loop" /\ pc'[w] = "loop") => Len(alphas[w]) >= batch_size]_vars

\* C3: the result file, once it has lines, has its one header as the first
\* line, every other line is a data row, and the header's cells are the keys
\* of the first record written.
C3_OneHeaderFirst ==
    /\ result_file_exists <=> Len(result_file) >= 1
    /\ \A i \in 1..Len(result_file) : (result_file[i].kind = "header") <=> (i = 1)
    /\ Len(result_file) >= 2 =>
          /\ Len(result_file[1].cells) = Len(result_file[2].cells)
          /\ \A c \in 1..Len(result_file[1].cells) :
                result_file[1].cells[c] = result_file[2].cells[c][1]

\* two workers have both appended rows to the file
C3_Witness ==
    /\ Len(result_file) >= 3
    /\ \E v, w \in Workers : v # w /\ written[v] >= 1 /\ written[w] >= 1

\* C4: the file holds at most one data row per resolved child job and no
\* more data rows than expressions drawn for submission.
C4_OneRowPerChild ==
    /\ \A i, j \in DataRows : RowAlphaID(i) = RowAlphaID(j) => i = j
    /\ Cardinality(DataRows) <= alpha_gen

\* C8: when the for loop over the n alpha IDs of a batch is over and m of
\* the metrics fetches returned None, the worker has appended n - m rows.
C8_RowsPerBatch ==
    \A w \in Workers :
        pc[w] = "for" =>
            /\ written[w] + absent[w] = idx[w] - 1
            /\ idx[w] > Len(alphaIDs[w][1]) =>
                  written[w] = Len(alphaIDs[w][1]) - absent[w]

\* a batch is over in which a fetch failed and a later child was written
C8_Witness ==
    \E w \in Workers :
        /\ pc[w] = "for"
        /\ idx[w] > Len(alphaIDs[w][1])
        /\ absent[w] >= 1
        /\ written[w] >= 1
        /\ result_dict[w] # None

\* C13: a worker that is about to call multi_simulate (line 87) holds a
\* batch of at least one expression, also once the source is exhausted.
C13_NoEmptyBatch ==
    \A w \in Workers : pc[w] = "simulate" => Len(alphas[w]) >= 1

\* C16: on the step in which multi_simulate returns None for a worker's
\* batch, no line is appended to the result file, the source is not moved,
\* no other worker is touched, and the worker is back at the top of its loop,
\* where it draws the next batch.
C16_AbandonedBatch ==
    [][\A w \in Workers :
          (pc[w] = "simulate" /\ pc'[w] \notin {"simulate", "crashed"}
             /\ alphaIDs'[w] = None) =>
              /\ pc'[w] = "loop"
              /\ result_file' = result_file
              /\ result_file_exists' = result_file_exists
              /\ alpha_gen' = alpha_gen
              /\ \A v \in Workers \ {w} : pc'[v] = pc[v]]_vars

\* a worker is back at the top of its loop after multi_simulate returned
\* None for a batch that was not empty, while another worker has written rows
C16_Witness ==
    \E w \in Workers :
        /\ pc[w] = "loop" /\ alphaIDs[w] = None /\ Len(alphas[w]) >= 1
        /\ \E v \in Workers \ {w} : written[v] >= 1

\* the position of an expression in the order of the draws, the worker that
\* drew it, and the position at which its batch starts (a batch is a run of
\* at most batch_size draws of one worker)
DrawIndex(alpha) == CHOOSE i \in 1..Len(drawLog) : drawLog[i][2] = alpha
Drawer(alpha) == drawLog[DrawIndex(alpha)][1]
RECURSIVE BatchStart(_)
BatchStart(i) ==
    IF i = 1 THEN 1
    ELSE LET b == BatchStart(i - 1)
         IN IF drawLog[i][1] = drawLog[i - 1][1] /\ i - b < batch_size THEN b ELSE i
ExportPcs == {"export_check", "export_header", "export_row"}

\* C17 as stated: a worker that holds result_csv_lock has no metrics fetch of
\* its batch left to do, and between two rows of one batch there is no row
\* of another worker.
C17_BatchRowsContiguous ==
    /\ \A w \in Workers : result_csv_lock = w => idx[w] >= Len(alphaIDs[w][1])
    /\ \A i, k, j \in DataRows :
          (i < k /\ k < j
             /\ BatchStart(DrawIndex(RowAlphaID(i))) = BatchStart(DrawIndex(RowAlphaID(j))))
          => Drawer(RowAlphaID(k)) = Drawer(RowAlphaID(i))

\* C17 amended: result_csv_lock is held by a worker exactly while it exports
\* one record, the one whose metrics it has just fetched: the records before
\* it in the batch are written or skipped, the ones after it are not fetched yet.
C17_LockPerRecord ==
    \A w \in Workers :
        /\ result_csv_lock = w <=> pc[w] \in ExportPcs
        /\ pc[w] \in ExportPcs \cup {"export_lock"} =>
              /\ result_dict[w] # None
              /\ idx[w] <= Len(alphaIDs[w][1])
              /\ written[w] + absent[w] = idx[w] - 1

\* a worker holds the lock for the second record of its batch while the file
\* has a row of another worker after a row of this worker
C17_Witness ==
    \E w \in Workers :
        /\ result_csv_lock = w /\ pc[w] = "export_row" /\ idx[w] >= 2
        /\ \E i, k \in DataRows :
              i < k /\ Drawer(RowAlphaID(i)) = w /\ Drawer(RowAlphaID(k)) # w

\* the alpha IDs of the data rows, in file order
FileAlphaIDs ==
    LET rows == SelectSeq(result_file, LAMBDA l : l.kind = "row")
    IN [i \in 1..Len(rows) |-> rows[i].cells[1][2]]
Range(q) == {q[i] : i \in 1..Len(q)}
RECURSIVE IsSubseq(_, _)
IsSubseq(q, t) ==
    IF q = <<>> THEN TRUE
    ELSE IF t = <<>> THEN FALSE
    ELSE IF Head(q) = Head(t) THEN IsSubseq(Tail(q), Tail(t))
    ELSE IsSubseq(q, Tail(t))
\* the rows of the file that belong to the batch worker w is working on
BatchRows(w) ==
    LET ids == Range(alphaIDs[w][1])
        mine == SelectSeq(result_file, LAMBDA l : l.kind = "row" /\ l.cells[1][2] \in ids)
    IN [i \in 1..Len(mine) |-> mine[i].cells[1][2]]

\* C18: the rows a worker has written for the batch it is working on are, in
\* file order, the alpha IDs multi_simulate returned for the batch in the
\* order of that list, less the ones whose metrics were absent, whatever rows
\* other workers wrote in between.
C18_RowsInReturnedOrder ==
    \A w \in Workers :
        pc[w] \in ExportPcs \cup {"for", "export_lock"} =>
            LET rows == BatchRows(w)
            IN /\ Len(rows) = written[w]
               /\ IsSubseq(rows, SubSeq(alphaIDs[w][1], 1, idx[w] - 1))

\* a batch is over with two rows written and a row of another batch between them
C18_Witness ==
    \E w \in Workers :
        /\ pc[w] = "for" /\ idx[w] > Len(alphaIDs[w][1]) /\ written[w] >= 2
        /\ \E i, k, j \in 1..Len(FileAlphaIDs) :
              /\ i < k /\ k < j
              /\ FileAlphaIDs[i] \in Range(alphaIDs[w][1])
              /\ FileAlphaIDs[j] \in Range(alphaIDs[w][1])
              /\ FileAlphaIDs[i] # FileAlphaIDs[j]
              /\ FileAlphaIDs[k] \notin Range(alphaIDs[w][1])

\* the keys of a record
Keys(d) == {d[i][1] : i \in 1..Len(d)}

\* C20: the record a worker is about to append to the result file has the
\* key "*alphaID" and the key "alpha".
C20_RecordHasAlphaID ==
    \A w \in Workers :
        pc[w] \in ExportPcs =>
            {"*alphaID", "alpha"} \subseteq Keys(result_dict[w][1])

\* C21: every data row of the result file has as many cells as the header
\* and its c-th cell is the value of the key in the c-th cell of the header.
C21_RowsMatchHeader ==
    \A i \in DataRows :
        /\ result_file[1].kind = "header"
        /\ Len(result_file[i].cells) = Len(result_file[1].cells)
        /\ \A c \in 1..Len(result_file[i].cells) :
              result_file[i].cells[c][1] = result_file[1].cells[c]

\* the file holds rows of three different alphas, written by two workers
C21_Witness ==
    /\ Cardinality({RowAlphaID(i) : i \in DataRows}) >= 3
    /\ Cardinality({Drawer(RowAlphaID(i)) : i \in DataRows}) >= 2

\* a worker that waits for a lock another worker holds
Waiting(w) ==
    \/ pc[w] = "loop" /\ alpha_gen_lock \notin {NoOwner, w}
    \/ pc[w] = "export_lock" /\ result_csv_lock \notin {NoOwner, w}

\* C22: alpha_gen_lock is held exactly during the draw of a batch and
\* result_csv_lock exactly during the export of one record; a worker at a
\* network call (the submission with its polls, a metrics fetch) holds no
\* lock; no worker holds both locks; and as long as a worker is alive, not
\* all the live workers wait for a lock.
C22_LockDiscipline ==
    /\ \A w \in Workers :
          /\ alpha_gen_lock = w <=> pc[w] = "draw"
          /\ result_csv_lock = w <=> pc[w] \in ExportPcs
          /\ pc[w] \in {"simulate", "for"} => alpha_gen_lock # w /\ result_csv_lock # w
          /\ ~(alpha_gen_lock = w /\ result_csv_lock = w)
    /\ (\E w \in Workers : pc[w] # "crashed") =>
          \E w \in Workers : pc[w] # "crashed" /\ ~Waiting(w)

\* one worker holds alpha_gen_lock, another holds result_csv_lock
C22_Witness ==
    \E v, w \in Workers :
        /\ v # w
        /\ alpha_gen_lock = v /\ pc[v] = "draw"
        /\ result_csv_lock = w /\ pc[w] = "export_row"

\* C23: with fair scheduling and a server that resolves every job and fails
\* no request, from some point on the result file holds exactly one data row
\* for each expression of the source and no other data row.
C23_AllRowsInTheEnd ==
    <>[](/\ Cardinality(DataRows) = Len(Source)
         /\ {RowAlphaID(i) : i \in DataRows} =
                {ServerAlphaID(Source[i]) : i \in DOMAIN Source})

\* -------------------------------------------------------- client properties
\* C5: against a server whose every body is empty, get_alpha_result called
\* with budget r returns None after exactly r GETs when r >= 1 and after no
\* GET when r <= 0.
C5_EmptyBodiesUseTheBudget ==
    (gar.pc = "return" /\ gar.empties = gar.gets) =>
        /\ gar.ret = None
        /\ gar.gets = Max(gar.r0, 0)

\* a call with a budget of at least 2 that met empty bodies only has returned
C5_Witness ==
    /\ gar.pc = "return"
    /\ gar.r0 >= 2
    /\ gar.empties = gar.r0
    /\ gar.gets = gar.r0

\* C6: in multi_simulate no connection failure during polling reaches the
\* caller as an exception; each such failure costs exactly one unit of the
\* budget and one further POST, and a call that returns None with a budget
\* r >= 1 has made exactly r POSTs.
C6_ConnectionFailureRetries ==
    /\ ms.pc # "raise"
    /\ ms.pc \in {"entry", "poll", "return"} => ms.r0 - ms.maxRetries = ms.connFailures
    /\ ms.pc = "poll" => ms.posts = ms.connFailures + 1
    /\ (ms.pc = "return" /\ ms.ret = None /\ ms.r0 >= 1) => ms.posts = ms.r0

DfKeys(d) == {d[i][1] : i \in 1..Len(d)}

\* C10: for a page size in 1..50 and a server-reported count c, the mapping
\* get_datafields returns has exactly c keys, the field IDs 1..c once each;
\* the offsets requested are 0, limit, 2*limit, ... and every index below c
\* lies in a requested page.
C10_AllFieldsOnce ==
    (df.pc = "return" /\ df.limit >= 1 /\ df.limit <= MaxLimit) =>
        /\ df.ret # None
        /\ Len(df.ret[1]) = df.total
        /\ DfKeys(df.ret[1]) = 1..df.total
        /\ \A i \in 1..Len(df.offsets) : df.offsets[i] = df.limit * (i - 1)
        /\ \A x \in 0..(df.total - 1) :
              \E i \in 1..Len(df.offsets) :
                 df.offsets[i] <= x /\ x < df.offsets[i] + df.limit

\* a count that is an exact multiple of the page size, over several pages
C10_Witness ==
    /\ df.pc = "return"
    /\ df.ret # None
    /\ df.total >= 2 * df.limit
    /\ df.total % df.limit = 0
    /\ Len(df.ret[1]) = df.total

\* C14: the list multi_simulate returns for a batch holds exactly one alpha ID
\* per child, the i-th entry being the ID of the i-th child, whatever the
\* number of polls and whichever child had no alpha ID yet at a poll.
C14_OneIDPerChild ==
    cl_op = "multi_simulate" /\ ms.pc = "return" /\ ms.ret # None =>
        /\ Len(ms.ret[1]) = Len(ms.alphas)
        /\ \A i \in 1..Len(ms.alphas) : ms.ret[1][i] = ServerAlphaID(ms.alphas[i])

\* C15: in multi_simulate, regular_simulate and super_simulate a poll that
\* finds the terminal field missing costs no retry and sends no POST: as long
\* as nothing else goes wrong the budget is the one the call started with,
\* one POST has been sent, and the call returns the resolved ID(s), however
\* many such polls there were.
C15_PendingIsFree ==
    /\ cl_op = "multi_simulate" /\ ms.r0 >= 1 /\ ms.connFailures = 0 /\ ms.polls = 0 =>
          /\ ms.maxRetries = ms.r0
          /\ ms.posts <= 1
          /\ ms.pc = "return" =>
                /\ ms.posts = 1
                /\ ms.ret = Some(ChildIDs(ms.alphas, Len(ms.alphas)))
    /\ cl_op \in {"regular_simulate", "super_simulate"}
           /\ sim.r0 >= 1 /\ sim.connFailures = 0 =>
          /\ sim.maxRetries = sim.r0
          /\ sim.posts <= 1
          /\ sim.pc = "return" =>
                /\ sim.posts = 1
                /\ sim.ret = Some(ServerAlphaID(sim.alpha))
C15_Witness ==
    /\ cl_op = "multi_simulate" /\ ms.pc = "return" /\ ms.connFailures = 0
    /\ ms.polls = 0 /\ ms.pendings = MaxPending /\ ms.pendings > ms.r0 /\ ms.r0 >= 1
    /\ Len(ms.alphas) = batch_size /\ ms.ret = Some(ChildIDs(ms.alphas, batch_size))

\* C19: a login whose every attempt was answered 401 with the step-up marker
\* and whose re-check never returned 200 makes one credential POST and one
\* prompt per unit of its budget and then returns None; with a budget <= 0 it
\* returns None without a request or a prompt; a re-check that returns 200
\* ends the login at once with the session.
C19_StepUpRetries ==
    cl_op = "login" =>
        /\ lg.r0 <= 0 =>
              /\ lg.posts = 0 /\ lg.prompts = 0
              /\ lg.pc = "return" => lg.ret = None
        /\ (lg.r0 >= 1 /\ \A i \in 1..Len(lg.log) :
                             /\ lg.log[i].status = 401
                             /\ lg.log[i].www = "persona"
                             /\ lg.log[i].status2 # 200) =>
              /\ lg.posts = Len(lg.log)
              /\ lg.prompts = lg.posts
              /\ lg.posts = lg.r0 - lg.maxRetries
              /\ lg.posts <= lg.r0
              /\ lg.pc = "return" => (lg.posts = lg.r0 /\ lg.ret = None)
        /\ \A i \in 1..Len(lg.log) :
              (lg.log[i].status = 401 /\ lg.log[i].www = "persona"
                 /\ lg.log[i].status2 = 200) =>
                  /\ i = Len(lg.log)
                  /\ lg.pc = "return"
                  /\ lg.ret = Some("session")
                  /\ lg.posts = i /\ lg.prompts = i

\* a login with a budget of 3 has run out after three failed confirmations
C19_Witness ==
    /\ cl_op = "login" /\ lg.pc = "return" /\ lg.ret = None
    /\ lg.r0 = 3 /\ lg.posts = 3 /\ lg.prompts = 3
    /\ \A i \in 1..Len(lg.log) :
          lg.log[i].status = 401 /\ lg.log[i].www = "persona" /\ lg.log[i].status2 # 200

\* C12: get_datafields with a limit that is not in 1..50 returns None and
\* sends no request; with a limit in 1..50 the check lets the call through
\* to its first GET and the call returns a dictionary.
C12_LimitCheck ==
    cl_op = "get_datafields" /\ df.pc # "entry" =>
        IF df.limit <= 0 \/ df.limit > MaxLimit
        THEN df.pc = "return" /\ df.ret = None /\ df.gets = 0
        ELSE df.gets >= 1 /\ (df.pc = "return" => df.ret # None)
C12_Witness ==
    cl_op = "get_datafields" /\ df.pc = "return" /\ df.limit > MaxLimit /\ df.ret = None

C24_DelimiterValidation ==
    [][/\ fio'.calls # fio.calls /\ Len(fio'.delimiter) # 1
          => result_file' = result_file /\ result_file_exists' = result_file_exists
       /\ fio'.pc = "done" /\ Len(fio'.delimiter) # 1
          => ~fio'.opened /\ fio'.yielded = <<>>
       /\ fio'.pc = "imported" /\ Len(fio'.delimiter) # 1
          => ~fio'.opened /\ fio'.ret = None]_vars

\* a second export, turned down, on a file that holds a header and a row
C24_Witness ==
    /\ fio.pc = "export" /\ fio.calls = 2 /\ Len(fio.delimiter) = 2
    /\ Len(result_file) = 2

\* the texts a placeholder of variable var may be replaced by
ValueTexts(var) ==
    {Str(ga.variables[var][1].type, v) : v \in ga.variables[var][1].values}

\* the template with every placeholder filled in with the text chosen for it
RECURSIVE Fill(_, _)
Fill(template, texts) ==
    IF template = <<>> THEN <<>>
    ELSE (IF \E var \in DOMAIN texts : Head(template) = Placeholder(var)
          THEN texts[CHOOSE var \in DOMAIN texts : Head(template) = Placeholder(var)]
          ELSE <<Head(template)>>)
             \o Fill(Tail(template), texts)

\* the instances of the template: one per choice of a text for each placeholder
Instances ==
    LET used == UniqueVars(ga.template)
    IN {Fill(ga.template, texts) :
            texts \in {t \in [used -> UNION {ValueTexts(var) : var \in used}] :
                          \A var \in used : t[var] \in ValueTexts(var)}}

\* the lines the call appended to the file
Appended == SubSeq(fio.file, Len(ga.file0) + 1, Len(fio.file))

\* the call raised ValueError for an undefined placeholder, the file untouched
RaisedUnchanged ==
    /\ fio.file = ga.file0
    /\ \E var \in UniqueVars(ga.template) : ga.variables[var] = None

C26_RetryIdentical ==
    /\ cl_op = "multi_simulate" =>
          \A i \in DOMAIN ms.jobs :
              /\ ms.jobs[i].settings = ms.jobs[1].settings
              /\ ms.jobs[i].maxRetries = ms.jobs[1].maxRetries - (i - 1)
    /\ cl_op \in {"regular_simulate", "super_simulate"} =>
          \A i \in DOMAIN sim.jobs :
              /\ sim.jobs[i].settings = sim.jobs[1].settings
              /\ sim.jobs[i].maxRetries = sim.jobs[1].maxRetries - (i - 1)

\* ---------------------------------------------------------- main properties
\* C25: once login has returned None, main does nothing with the absent
\* session: get_datafields is not called and sends no request, no expression
\* is generated and no worker thread is started.
C25_NothingOnAbsentSession ==
    mn.pc \notin {"idle", "login"} /\ mn.auth_session = None
    => ~mn.fetched /\ df.gets = 0 /\ ~mn.generated /\ mn.started = 0

====
